---- MODULE Spec2Model ----
(***************************************************************************)
(* Dependency-graph pipeline of economic-security-modeling:                *)
(*   bonqdao-viz/uniswap_poc.py       call graph, reachability, aggregator,*)
(*                                    driver loop                          *)
(*   bonqdao-viz/render_dependency_pdf.py   influence graph builder        *)
(*   v2-core/deps_uniswap.py          reachable(), attack-surface ranking  *)
(*                                                                         *)
(* Python str values are sequences of one-character strings, so that       *)
(* lower(), "in", startswith and f-string formatting are computed.         *)
(* Python dict values are sequences of [key, value] records in insertion   *)
(* order.  A Function object is its position in the unit's function list   *)
(* (object identity), distinct from function_id, which formats two names.  *)
(***************************************************************************)
EXTENDS Naturals, Sequences, FiniteSets, TLC

VARIABLES
    pc,                           \* position of the program being run
    \* ---- module configuration of uniswap_poc.py
    INCLUDE_VARIABLE_SUBSTRINGS,  \* tuple of tokens (membership only is used)
    EXCLUDE_NO_EFFECT_FUNCTIONS,  \* bool
    \* ---- analyze_solidity_file
    functions,                    \* list of Function facts of the unit
    cursor,                       \* position of "for f in functions"
    results,                      \* dict fid -> record, insertion ordered
    \* ---- reachable_functions
    call_graph, start, visited, queue,
    \* ---- build_function_influence_graph
    data, writers, readers, G,
    \* ---- main
    solidity_files, file_idx, all_functions, log,
    main_edges,                   \* list of edge records, emission order
    main_graph,                   \* the dict handed to json.dump
    document,                     \* the file written, members as serialised
    \* ---- deps_uniswap.py
    fn_reads, fn_writes, fn_calls, entrypoints,
    ranked,                       \* list of tuples
    report                        \* what the final loop prints, in order

vars == <<pc, INCLUDE_VARIABLE_SUBSTRINGS, EXCLUDE_NO_EFFECT_FUNCTIONS,
          functions, cursor, results, call_graph, start, visited, queue,
          data, writers, readers, G, solidity_files, file_idx,
          all_functions, log, main_edges, main_graph, document,
          fn_reads, fn_writes, fn_calls, entrypoints, ranked, report>>

cfgVars     == <<INCLUDE_VARIABLE_SUBSTRINGS, EXCLUDE_NO_EFFECT_FUNCTIONS>>
analyzeVars == <<functions, cursor, results>>
reachVars   == <<call_graph, start, visited, queue>>
influVars   == <<data, writers, readers, G>>
exportVars  == <<main_edges, main_graph, document>>
mainVars    == <<solidity_files, file_idx, all_functions, log, exportVars>>
rankVars    == <<fn_reads, fn_writes, fn_calls, entrypoints, ranked, report>>

-----------------------------------------------------------------------------
(* Strings *)

\* The characters in use, in ASCII order.
Alphabet ==
    <<".", "0", "F", "I", "P", "R", "S", "_", "a", "b", "c", "d", "e", "i",
      "k", "l", "n", "o", "p", "r", "s", "t", "u", "v", "w", "y">>

Ord(c) == CHOOSE k \in DOMAIN Alphabet : Alphabet[k] = c

\* str.lower() on one character
LowerChar(c) ==
    CASE c = "F" -> "f"
      [] c = "I" -> "i"
      [] c = "P" -> "p"
      [] c = "R" -> "r"
      [] c = "S" -> "s"
      [] OTHER   -> c

\* str.lower()
Lower(s) == [k \in DOMAIN s |-> LowerChar(s[k])]

\* Python "sub in s"
Contains(sub, s) ==
    \E k \in 0 .. Len(s) :
        /\ k + Len(sub) <= Len(s)
        /\ SubSeq(s, k + 1, k + Len(sub)) = sub

\* Python s.startswith(prefixes) with a tuple of prefixes
StartsWith(s, prefixes) ==
    \E p \in prefixes : Len(p) <= Len(s) /\ SubSeq(s, 1, Len(p)) = p

\* Python str comparison s < t (lexicographic by code point)
StrLess(s, t) ==
    \E k \in 1 .. Len(t) :
        /\ \A j \in 1 .. (k - 1) : j <= Len(s) /\ s[j] = t[j]
        /\ \/ k = Len(s) + 1
           \/ k <= Len(s) /\ Ord(s[k]) < Ord(t[k])

\* Python sorted(S) for a set of str
RECURSIVE sorted(_)
sorted(S) ==
    IF S = {} THEN <<>>
    ELSE LET m == CHOOSE x \in S : \A y \in S \ {x} : StrLess(x, y)
         IN  <<m>> \o sorted(S \ {m})

\* Elements of a list
Elems(seq) == {seq[k] : k \in DOMAIN seq}

\* Names used by the inputs
sIFoo        == <<"I", "F", "o", "o">>
sPair        == <<"P", "a", "i", "r">>
sbar         == <<"b", "a", "r">>
sswap        == <<"s", "w", "a", "p">>
sInit        == <<"I", "n", "i", "t">>
s_update     == <<"_", "u", "p", "d", "a", "t", "e">>
sreserve0    == <<"r", "e", "s", "e", "r", "v", "e", "0">>
stotalSupply == <<"t", "o", "t", "a", "l", "S", "u", "p", "p", "l", "y">>
sreserve     == <<"r", "e", "s", "e", "r", "v", "e">>
sReserve     == <<"R", "e", "s", "e", "r", "v", "e">>
ssupply      == <<"s", "u", "p", "p", "l", "y">>
sI           == <<"I">>
sprice       == <<"p", "r", "i", "c", "e">>
stoken       == <<"t", "o", "k", "e", "n">>
stoken0      == <<"t", "o", "k", "e", "n", "0">>

-----------------------------------------------------------------------------
(* Configuration and filters, uniswap_poc.py *)

EXCLUDE_FUNCTION_PREFIXES == {sI}

variable_name_allowed(name) ==
    LET lname == Lower(name)
    IN  \E substr \in INCLUDE_VARIABLE_SUBSTRINGS : Contains(substr, lname)

function_name_allowed(name) == ~StartsWith(name, EXCLUDE_FUNCTION_PREFIXES)

function_semantically_relevant(reads, writes) ==
    IF ~EXCLUDE_NO_EFFECT_FUNCTIONS THEN TRUE
    ELSE reads # {} \/ writes # {}

\* f"{a}.{b}"
Qualified(a, b) == a \o <<".">> \o b

function_id(f) == Qualified(f.contract, f.name)

variable_id(v) == Qualified(v.contract, v.name)

is_entrypoint(f) ==
    f.visibility \in {"public", "external"} /\ ~f.is_constructor

-----------------------------------------------------------------------------
(* Facts delivered by Slither for one compilation unit *)

\* The Function objects of a unit, by position in the function list
Fns == {1, 2, 3}

\* An entry of f.internal_calls: an InternalCall operation carrying the called
\* Function, or a SolidityCall (require, assert, ...), which carries none.
InternalCall(j) == [kind |-> "InternalCall", function |-> j]
SolidityCall    == [kind |-> "SolidityCall", function |-> 0]

CallObjects == {InternalCall(j) : j \in Fns} \cup {SolidityCall}

\* Bound on the number of internal_calls entries of a unit
MaxCalls == 3

\* All assignments of internal_calls to the functions of a unit
CallAssignments ==
    LET pairs  == Fns \X CallObjects
        chosen == {S \in SUBSET pairs : Cardinality(S) <= MaxCalls}
    IN  {[f \in Fns |-> {p[2] : p \in {q \in S : q[1] = f}}] : S \in chosen}

-----------------------------------------------------------------------------
(* Call graph and reachability, uniswap_poc.py *)

\* dict.get(key, [])
Get(graph, key) == IF key \in DOMAIN graph THEN graph[key] ELSE {}

\* defaultdict(set) filled by graph[f].add(call.function): a key exists only
\* for a function with at least one call that carries a Function.
build_call_graph(fs) ==
    LET callees(f) == {call.function :
                          call \in {c \in fs[f].internal_calls :
                                       c.kind = "InternalCall"}}
        keys == {f \in DOMAIN fs : callees(f) # {}}
    IN  [f \in keys |-> callees(f)]

\* Variant: the for loop is left after the first callee it appends.
UnvisitedFirstOnly(current, seen, graph) ==
    LET new == Get(graph, current) \ seen
    IN  IF new = {} THEN {} ELSE {CHOOSE x \in new : TRUE}

\* Variant: no "if nxt not in visited" guard.
UnvisitedNoGuard(current, seen, graph) == Get(graph, current)

\* The callees of current that pass "if nxt not in visited"
Unvisited(current, seen, graph) == Get(graph, current) \ seen

\* The orders in which a set can be iterated
Orderings(S) ==
    {o \in [1 .. Cardinality(S) -> S] : \A x \in S : \E k \in DOMAIN o : o[k] = x}

\* The while loop of reachable_functions, run to completion from a loop state
RECURSIVE bfs(_, _, _)
bfs(seen, q, graph) ==
    IF q = <<>> THEN seen
    ELSE LET current == Head(q)
             new     == Unvisited(current, seen, graph)
             order   == CHOOSE o \in Orderings(new) : TRUE
         IN  bfs(seen \cup new, Tail(q) \o order, graph)

reachable_functions(s, graph) == bfs({s}, <<s>>, graph)

-----------------------------------------------------------------------------
(* dict, insertion ordered *)

NoDict == <<>>

Keys(d) == {d[k].key : k \in DOMAIN d}

\* d[key]
Lookup(d, key) == d[CHOOSE k \in DOMAIN d : d[k].key = key].value

\* d[key] = value: a present key keeps its place, a new one goes last
SetItem(d, key, value) ==
    IF key \in Keys(d)
    THEN [k \in DOMAIN d |-> IF d[k].key = key
                              THEN [key |-> key, value |-> value]
                              ELSE d[k]]
    ELSE Append(d, [key |-> key, value |-> value])

\* d.update(other)
RECURSIVE Update(_, _)
Update(d, other) ==
    IF other = <<>> THEN d
    ELSE Update(SetItem(d, Head(other).key, Head(other).value), Tail(other))

-----------------------------------------------------------------------------
(* Aggregation over the closure of one entry point, uniswap_poc.py *)

\* reads of the closure: the allow-listed variables read by some g
closure_reads(fs, reachable) ==
    {variable_id(v) :
        v \in {w \in UNION {fs[g].state_variables_read : g \in reachable} :
                  variable_name_allowed(w.name)}}

\* writes of the closure
closure_writes(fs, reachable) ==
    {variable_id(v) :
        v \in {w \in UNION {fs[g].state_variables_written : g \in reachable} :
                  variable_name_allowed(w.name)}}

\* callees of the closure: "if g is not f" compares Function objects
closure_callees(fs, f, reachable) ==
    {function_id(fs[g]) : g \in reachable \ {f}}

Record(reads, writes, callees) ==
    [entrypoint |-> TRUE,
     reads      |-> sorted(reads),
     writes     |-> sorted(writes),
     calls      |-> sorted(callees)]

\* The record built for entry point f
EntrypointRecord(fs, graph, f) ==
    LET reachable == reachable_functions(f, graph)
    IN  Record(closure_reads(fs, reachable),
               closure_writes(fs, reachable),
               closure_callees(fs, f, reachable))

\* Variant: the no-effect test looks at the entry point's own accesses, before
\* its callees are followed.
KeptOwnEffectsOnly(fs, graph, f) ==
    /\ is_entrypoint(fs[f])
    /\ function_name_allowed(fs[f].name)
    /\ function_semantically_relevant(closure_reads(fs, {f}),
                                      closure_writes(fs, {f}))

\* Whether the body of "for f in functions" reaches results[fid] = ...
Kept(fs, graph, f) ==
    /\ is_entrypoint(fs[f])
    /\ function_name_allowed(fs[f].name)
    /\ LET reachable == reachable_functions(f, graph)
       IN  function_semantically_relevant(closure_reads(fs, reachable),
                                          closure_writes(fs, reachable))

\* One iteration of "for f in functions"
ProcessFunction(fs, graph, f, res) ==
    IF Kept(fs, graph, f)
    THEN SetItem(res, function_id(fs[f]), EntrypointRecord(fs, graph, f))
    ELSE res

\* The for loop from position f on
RECURSIVE AnalyzeFrom(_, _, _, _)
AnalyzeFrom(fs, graph, f, res) ==
    IF f > Len(fs) THEN res
    ELSE AnalyzeFrom(fs, graph, f + 1, ProcessFunction(fs, graph, f, res))

\* analyze_solidity_file on the facts of a unit that Slither could compile
analyze_solidity_file(fs) == AnalyzeFrom(fs, build_call_graph(fs), 1, NoDict)

-----------------------------------------------------------------------------
(* Inputs *)

\* A Function object as Slither delivers it
Function(contract, name, visibility, is_constructor, reads, writes, calls) ==
    [contract                |-> contract,
     name                    |-> name,
     visibility              |-> visibility,
     is_constructor          |-> is_constructor,
     state_variables_read    |-> reads,
     state_variables_written |-> writes,
     internal_calls          |-> calls]

\* State variables of the contracts
V_reserve0    == [contract |-> sPair, name |-> sreserve0]
V_totalSupply == [contract |-> sPair, name |-> stotalSupply]

StateVariables == {V_reserve0, V_totalSupply}

\* What one function reads and writes
AccessOptions ==
    {[reads |-> {},              writes |-> {}],
     [reads |-> {},              writes |-> {V_reserve0}],
     [reads |-> {V_totalSupply}, writes |-> {}]}

AccessAssignments == [Fns -> AccessOptions]

\* Bound on the number of calls between functions of an analysed unit
MaxInternalCalls == 2

InternalCallAssignments ==
    LET pairs  == Fns \X Fns
        chosen == {S \in SUBSET pairs : Cardinality(S) <= MaxInternalCalls}
    IN  {[f \in Fns |-> {InternalCall(p[2]) : p \in {q \in S : q[1] = f}}] :
            S \in chosen}

\* Contract and function names of the three functions: distinct names with an
\* interface contract, two overloads of one function, a name starting with I
NameAssignments ==
    {<<<<sPair, sswap>>, <<sPair, s_update>>, <<sIFoo, sbar>>>>,
     <<<<sPair, sswap>>, <<sPair, sswap>>,    <<sPair, s_update>>>>,
     <<<<sPair, sInit>>, <<sPair, s_update>>, <<sPair, sswap>>>>}

Kind(visibility, is_constructor) ==
    [visibility |-> visibility, is_constructor |-> is_constructor]

\* Visibility and constructor flag of the three functions
KindAssignments ==
    {<<Kind("external", FALSE), Kind("internal", FALSE), Kind("private", FALSE)>>,
     <<Kind("public", FALSE),   Kind("external", FALSE), Kind("internal", FALSE)>>,
     <<Kind("public", TRUE),    Kind("external", FALSE), Kind("internal", FALSE)>>,
     <<Kind("internal", FALSE), Kind("public", FALSE),   Kind("external", FALSE)>>}

\* Values of INCLUDE_VARIABLE_SUBSTRINGS
AllowLists == {{}, {sreserve}, {sReserve, ssupply}}

\* Units that differ in their internal calls only
ReachUnits ==
    {[f \in Fns |-> Function(sPair, <<"a", "b", "c">>[f], "internal", FALSE,
                             {}, {}, calls[f])] : calls \in CallAssignments}

IdleConfig  == /\ INCLUDE_VARIABLE_SUBSTRINGS = {}
               /\ EXCLUDE_NO_EFFECT_FUNCTIONS = TRUE
IdleAnalyze == functions = <<>> /\ cursor = 0 /\ results = NoDict
IdleReach   == call_graph = <<>> /\ start = 0 /\ visited = {} /\ queue = <<>>
IdleInflu   == data = NoDict /\ writers = NoDict /\ readers = NoDict /\ G = NoDict
\* Nothing built, nothing written yet
NoGraph == [nodes     |-> [functions |-> <<>>, variables |-> <<>>],
            functions |-> NoDict,
            edges     |-> <<>>,
            meta      |-> [source |-> "slither", analysis |-> "dependency-graph"]]

IdleExport  == main_edges = <<>> /\ main_graph = NoGraph /\ document = NoGraph
IdleRank    == /\ fn_reads = <<>> /\ fn_writes = <<>> /\ fn_calls = <<>>
               /\ entrypoints = {} /\ ranked = <<>> /\ report = <<>>
IdleMain    == /\ solidity_files = <<>> /\ file_idx = 0
               /\ all_functions = NoDict /\ log = <<>>
               /\ IdleExport

-----------------------------------------------------------------------------
(* reachable_functions run step by step *)

\* The deque holds a function at most once per discovery, so it never grows
\* beyond the functions of the unit; growth past QueueCap is cut off.
QueueCap == Cardinality(Fns) + 1

InitReach ==
    /\ pc = "build"
    /\ IdleConfig /\ IdleInflu /\ IdleMain /\ IdleRank
    /\ functions \in ReachUnits
    /\ cursor = 0 /\ results = NoDict
    /\ start \in Fns
    /\ call_graph = <<>> /\ visited = {} /\ queue = <<>>

\* call_graph = build_call_graph(functions)
BuildCallGraph ==
    /\ pc = "build"
    /\ call_graph' = build_call_graph(functions)
    /\ pc' = "call"
    /\ UNCHANGED <<cfgVars, analyzeVars, start, visited, queue, influVars, mainVars, rankVars>>

\* visited = {start}; queue = deque([start])
ReachEnter ==
    /\ pc = "call"
    /\ visited' = {start}
    /\ queue' = <<start>>
    /\ pc' = "loop"
    /\ UNCHANGED <<cfgVars, analyzeVars, call_graph, start, influVars, mainVars, rankVars>>

\* One iteration of "while queue": popleft, then the for loop over the
\* callees, whose set is iterated in an arbitrary order.
ReachStep ==
    /\ pc = "loop"
    /\ queue # <<>>
    /\ LET current == Head(queue)
           new     == Unvisited(current, visited, call_graph)
       IN  /\ Len(queue) - 1 + Cardinality(new) <= QueueCap
           /\ \E order \in Orderings(new) :
                  /\ visited' = visited \cup new
                  /\ queue' = Tail(queue) \o order
    /\ UNCHANGED <<pc, cfgVars, analyzeVars, call_graph, start, influVars, mainVars, rankVars>>

\* return visited
ReachReturn ==
    /\ pc = "loop"
    /\ queue = <<>>
    /\ pc' = "done"
    /\ UNCHANGED <<cfgVars, analyzeVars, reachVars, influVars, mainVars, rankVars>>

NextReach == BuildCallGraph \/ ReachEnter \/ ReachStep \/ ReachReturn

SpecReach == InitReach /\ [][NextReach]_vars

\* The interpreter runs the loop as long as it can take a step.
FairSpecReach == SpecReach /\ WF_vars(NextReach)

-----------------------------------------------------------------------------
(* Reachability properties *)

\* g -> h is an edge: g makes an internal call that carries Function h
Edge(g, h) == InternalCall(h) \in functions[g].internal_calls

\* Least set containing s and closed under edges, by iteration to a fixpoint
RECURSIVE ClosureFrom(_)
ClosureFrom(S) ==
    LET T == S \cup {h \in Fns : \E g \in S : Edge(g, h)}
    IN  IF T = S THEN S ELSE ClosureFrom(T)

Closure(s) == ClosureFrom({s})

\* C1: the set returned by reachable_functions(start, call_graph) contains
\* start and is closed under call edges; a function without an entry in the
\* adjacency mapping has no callees.
C1_ReflexiveClosed ==
    pc = "done" =>
        /\ start \in visited
        /\ \A g \in visited : \A h \in Fns : Edge(g, h) => h \in visited

\* A callee reached only through another callee, behind a function that has
\* no entry in the adjacency mapping.
C1_Witness ==
    /\ pc = "done"
    /\ \E h \in visited : h # start /\ ~Edge(start, h)
    /\ \E g \in visited : g \notin DOMAIN call_graph

\* The call graph A -> B -> A
CycleAB == call_graph = (1 :> {2}) @@ (2 :> {1})

\* C2: the breadth-first computation terminates on every call graph, cyclic
\* ones and self-loops included, and what it returns is exactly the closure
\* of start; for A -> B -> A and start A that is {A, B}.
C2_Terminates ==
    /\ <>(pc = "done")
    /\ [](pc = "done" => visited = Closure(start))
    /\ [](pc = "done" /\ CycleAB /\ start = 1 => visited = {1, 2})

\* The run on A -> B -> A from A has returned {A, B}.
C2_Witness ==
    pc = "done" /\ CycleAB /\ start = 1 /\ visited = {1, 2}

-----------------------------------------------------------------------------
(* analyze_solidity_file run one function at a time *)

\* Whether the analysis of the unit at hand raises: at 0 in Slither(path),
\* at f while the facts of function f are read.  A unit analysed on its own
\* is one that Slither could compile and whose facts can be read.
RaisesAt(at) ==
    /\ file_idx \in DOMAIN solidity_files
    /\ solidity_files[file_idx].raises
    /\ solidity_files[file_idx].at = at

InitAnalyze ==
    /\ pc = "slither"
    /\ IdleReach /\ IdleInflu /\ IdleMain /\ IdleRank
    /\ INCLUDE_VARIABLE_SUBSTRINGS \in AllowLists
    /\ EXCLUDE_NO_EFFECT_FUNCTIONS \in BOOLEAN
    /\ \E names \in NameAssignments, kinds \in KindAssignments,
          acc \in AccessAssignments, calls \in InternalCallAssignments :
          functions = [f \in Fns |->
                         Function(names[f][1], names[f][2],
                                  kinds[f].visibility, kinds[f].is_constructor,
                                  acc[f].reads, acc[f].writes, calls[f])]
    /\ cursor = 0
    /\ results = NoDict

\* call_graph = build_call_graph(functions); results = {}
AnalyzeEnter ==
    /\ pc = "slither"
    /\ ~RaisesAt(0)
    /\ call_graph' = build_call_graph(functions)
    /\ cursor' = 1
    /\ results' = NoDict
    /\ pc' = "for"
    /\ UNCHANGED <<cfgVars, functions, start, visited, queue, influVars, mainVars, rankVars>>

\* One iteration of "for f in functions"
AnalyzeStep ==
    /\ pc = "for"
    /\ cursor <= Len(functions)
    /\ ~RaisesAt(cursor)
    /\ results' = ProcessFunction(functions, call_graph, cursor, results)
    /\ cursor' = cursor + 1
    /\ UNCHANGED <<pc, cfgVars, functions, reachVars, influVars, mainVars, rankVars>>

\* return results
AnalyzeReturn ==
    /\ pc = "for"
    /\ cursor > Len(functions)
    /\ pc' = "returned"
    /\ UNCHANGED <<cfgVars, analyzeVars, reachVars, influVars, mainVars, rankVars>>

NextAnalyze == AnalyzeEnter \/ AnalyzeStep \/ AnalyzeReturn

SpecAnalyze == InitAnalyze /\ [][NextAnalyze]_vars

-----------------------------------------------------------------------------
(* Aggregator properties *)

\* The functions the for loop has been through
Processed == IF pc \in {"for", "returned"} THEN 1 .. (cursor - 1) ELSE {}

\* The function the last iteration was about
LastProcessed == cursor - 1

Fid(f) == function_id(functions[f])

\* Entry-point eligibility before the closure is looked at
Eligible(f) ==
    /\ functions[f].visibility \in {"public", "external"}
    /\ ~functions[f].is_constructor
    /\ function_name_allowed(functions[f].name)

\* Case-insensitive substring: both sides compared in lower case
ContainsIgnoreCase(token, name) == Contains(Lower(token), Lower(name))

VariablesReadIn(S)    == UNION {functions[g].state_variables_read : g \in S}
VariablesWrittenIn(S) == UNION {functions[g].state_variables_written : g \in S}

\* The record that the last iteration stored, if it stored one
LastStored ==
    /\ Processed # {}
    /\ Kept(functions, call_graph, LastProcessed)

LastRecord == Lookup(results, Fid(LastProcessed))

\* C3: with a non-empty allow-list, the writes (reads) of the record of entry
\* point f are exactly the qualified names of the variables written (read)
\* in the closure of f whose name contains a token of the allow-list as a
\* case-insensitive substring.
C3_AllowListExact ==
    (LastStored /\ INCLUDE_VARIABLE_SUBSTRINGS # {}) =>
        LET R == Closure(LastProcessed)
            allowed(v) == \E t \in INCLUDE_VARIABLE_SUBSTRINGS :
                              ContainsIgnoreCase(t, v.name)
        IN  /\ Elems(LastRecord.writes) =
                   {variable_id(v) : v \in {w \in VariablesWrittenIn(R) : allowed(w)}}
            /\ Elems(LastRecord.reads) =
                   {variable_id(v) : v \in {w \in VariablesReadIn(R) : allowed(w)}}

\* C4: the calls of the record of entry point f are the identifiers of the
\* functions of its closure other than f, and f's own identifier is not
\* among them.
C4_CallsExcludeSelf ==
    LastStored =>
        /\ Elems(LastRecord.calls) =
               {Fid(g) : g \in Closure(LastProcessed) \ {LastProcessed}}
        /\ Fid(LastProcessed) \notin Elems(LastRecord.calls)

\* C7: with an empty allow-list every variable read or written in the
\* closure of an entry point is in the reads or writes of its record.
C7_EmptyAllowListPassesAll ==
    (LastStored /\ INCLUDE_VARIABLE_SUBSTRINGS = {}) =>
        LET R == Closure(LastProcessed)
        IN  /\ {variable_id(v) : v \in VariablesReadIn(R)}
                   \subseteq Elems(LastRecord.reads)
            /\ {variable_id(v) : v \in VariablesWrittenIn(R)}
                   \subseteq Elems(LastRecord.writes)

\* C8: with the exclude-prefix "I" configured, the entry point IFoo.bar is
\* not in the output, whatever it reads or writes.
C8_InterfaceEntryExcluded ==
    sI \in EXCLUDE_FUNCTION_PREFIXES =>
        Qualified(sIFoo, sbar) \notin Keys(results)

\* Some function of the closure of f touches an allow-listed variable
TouchesAllowed(f) ==
    \E v \in VariablesReadIn(Closure(f)) \cup VariablesWrittenIn(Closure(f)) :
        variable_name_allowed(v.name)

\* The map is keyed by qualified name, which is what identifies an entry
\* point in the output: a key is present exactly if the exclusion is off or
\* an eligible entry point of that name touches an allow-listed variable.
PresentIffEffect ==
    \A f \in Processed :
        Eligible(f) =>
            (Fid(f) \in Keys(results) <=>
                \/ ~EXCLUDE_NO_EFFECT_FUNCTIONS
                \/ \E g \in Processed :
                      Fid(g) = Fid(f) /\ Eligible(g) /\ TouchesAllowed(g))

\* The iteration for an eligible entry point f stores a record under f's name
\* exactly if the exclusion is off or the closure of f touches an
\* allow-listed variable, and otherwise leaves the map as it was.
StoredIffEffect ==
    (pc = "for" /\ cursor' = cursor + 1 /\ Eligible(cursor)) =>
        IF ~EXCLUDE_NO_EFFECT_FUNCTIONS \/ TouchesAllowed(cursor)
        THEN /\ Fid(cursor) \in Keys(results')
             /\ Keys(results') = Keys(results) \cup {Fid(cursor)}
        ELSE results' = results

-----------------------------------------------------------------------------
(* build_function_influence_graph, render_dependency_pdf.py *)

\* Function and variable names of a loaded graph document
DocFunctions == {"X.write", "Y.read", "Z.sync"}
DocVariables == {"X.price", "X.reserve"}

\* Bound on the number of function records of a loaded document
MaxRecords == 2

\* Lists without repetition over a set
ListsOver(S) == UNION {Orderings(T) : T \in SUBSET S}

\* The "functions" mappings of the documents: keys are distinct
Documents ==
    {d \in UNION {[1 .. n -> [key   : DocFunctions,
                              value : [reads  : ListsOver(DocVariables),
                                       writes : ListsOver(DocVariables)]]] :
                     n \in 0 .. MaxRecords} :
        \A j, k \in DOMAIN d : j # k => d[j].key # d[k].key}

\* writers.setdefault(v, set()).add(fn) for every v of one list
RECURSIVE AddAll(_, _, _)
AddAll(index, vs, fn) ==
    IF vs = <<>> THEN index
    ELSE LET v   == Head(vs)
             old == IF v \in Keys(index) THEN Lookup(index, v) ELSE {}
         IN  AddAll(SetItem(index, v, old \cup {fn}), Tail(vs), fn)

\* The first loop: writers and readers, as a pair
RECURSIVE Invert(_, _, _)
Invert(d, ws, rs) ==
    IF d = <<>> THEN <<ws, rs>>
    ELSE Invert(Tail(d),
                AddAll(ws, Head(d).value.writes, Head(d).key),
                AddAll(rs, Head(d).value.reads, Head(d).key))

\* Variant: no "if w != r" guard.
EdgesViaWithSelf(v, ws, rs) == Lookup(ws, v) \X Lookup(rs, v)

\* The (w, r) for which add_edge(w, r, via=v) is called
EdgesVia(v, ws, rs) ==
    {e \in Lookup(ws, v) \X Lookup(rs, v) : e[1] # e[2]}

\* nx.DiGraph.add_edge(w, r, via=v) for a set of (w, r): a DiGraph holds one
\* edge per ordered pair, and adding it again updates its attributes.
add_edges(graph, edges, v) ==
    [e \in DOMAIN graph \cup edges |->
        IF e \in edges THEN [via |-> v] ELSE graph[e]]

InitInfluence ==
    /\ pc = "invert"
    /\ IdleConfig /\ IdleAnalyze /\ IdleReach /\ IdleMain /\ IdleRank
    /\ data \in Documents
    /\ writers = NoDict /\ readers = NoDict /\ G = NoDict

\* The loop over data["functions"].items(); G = nx.DiGraph()
InfluenceInvert ==
    /\ pc = "invert"
    /\ writers' = Invert(data, NoDict, NoDict)[1]
    /\ readers' = Invert(data, NoDict, NoDict)[2]
    /\ cursor' = 1
    /\ pc' = "edges"
    /\ UNCHANGED <<cfgVars, functions, results, reachVars, data, G, mainVars, rankVars>>

\* One iteration of "for v in writers"
InfluenceStep ==
    /\ pc = "edges"
    /\ cursor <= Len(writers)
    /\ LET v == writers[cursor].key
       IN  G' = IF v \in Keys(readers)
                THEN add_edges(G, EdgesVia(v, writers, readers), v)
                ELSE G
    /\ cursor' = cursor + 1
    /\ UNCHANGED <<pc, cfgVars, functions, results, reachVars, data, writers,
                   readers, mainVars, rankVars>>

\* return G
InfluenceReturn ==
    /\ pc = "edges"
    /\ cursor > Len(writers)
    /\ pc' = "built"
    /\ UNCHANGED <<cfgVars, analyzeVars, reachVars, influVars, mainVars, rankVars>>

NextInfluence == InfluenceInvert \/ InfluenceStep \/ InfluenceReturn

SpecInfluence == InitInfluence /\ [][NextInfluence]_vars

-----------------------------------------------------------------------------
(* Influence graph properties *)

Writes(fn) == Elems(Lookup(data, fn).writes)
Reads(fn)  == Elems(Lookup(data, fn).reads)

\* C5: every edge of the influence graph has a writer different from its
\* reader; a function that writes and reads one variable has no edge to
\* itself.
C5_NoSelfInfluence == \A e \in DOMAIN G : e[1] # e[2]

\* A function writes and reads a variable that another function reads, and
\* the graph built has edges.
C5_Witness ==
    /\ pc = "built"
    /\ \E fn \in Keys(data), other \in Keys(data) :
          /\ other # fn
          /\ Writes(fn) \cap Reads(fn) \cap Reads(other) # {}
          /\ <<fn, other>> \in DOMAIN G

\* The edges of G with their via attribute
EdgeTriples == {<<e[1], e[2], G[e].via>> : e \in DOMAIN G}

\* C6: the graph built has one edge (w, r, v) for every variable v and every
\* pair w # r with v written by w and read by r; a pair that shares several
\* variables has one edge for each.
C6_OneEdgePerVariable ==
    pc = "built" =>
        EdgeTriples =
            {t \in Keys(data) \X Keys(data) \X DocVariables :
                t[1] # t[2] /\ t[3] \in Writes(t[1]) /\ t[3] \in Reads(t[2])}

-----------------------------------------------------------------------------
(* main, uniswap_poc.py *)

\* INCLUDE_VARIABLE_SUBSTRINGS as the module sets it
DefaultInclude == {sprice, sreserve, stoken}

\* A state variable that the default allow-list lets through besides reserve0
V_token0 == [contract |-> sPair, name |-> stoken0]

\* Facts of the compilation units found under SOLIDITY_DIR
UnitFacts ==
    {<<Function(sPair, sswap, "external", FALSE, {}, {},
                {InternalCall(2)}),
       Function(sPair, s_update, "private", FALSE, {V_token0}, {V_reserve0}, {}),
       Function(sPair, sInit, "external", FALSE, {V_reserve0}, {}, {})>>,
     <<Function(sPair, sswap, "external", FALSE, {V_reserve0}, {}, {}),
       Function(sIFoo, sbar, "external", FALSE, {V_totalSupply}, {}, {}),
       Function(sIFoo, sswap, "public", FALSE, {}, {V_reserve0},
                {InternalCall(1)})>>,
     <<Function(sPair, s_update, "public", FALSE, {V_reserve0}, {}, {}),
       Function(sPair, sswap, "public", TRUE, {}, {V_reserve0}, {}),
       Function(sPair, sbar, "internal", FALSE, {V_totalSupply}, {}, {})>>}

\* How the analysis of a unit ends: normally, with Slither(path) raising, or
\* with an exception while the facts of the second function are read
Outcomes ==
    {[raises |-> FALSE, at |-> 0],
     [raises |-> TRUE,  at |-> 0],
     [raises |-> TRUE,  at |-> 2]}

Units == {[functions |-> fs, raises |-> o.raises, at |-> o.at] :
             fs \in UnitFacts, o \in Outcomes}

\* Bound on the number of compilation units
MaxFiles == 3

\* Variant: the records collected before the exception are merged.
AfterFailureMerging(all, partial) == Update(all, partial)

\* all_functions after "except Exception": per_file was never bound
AfterFailure(all, partial) == all

InitMain ==
    /\ pc = "main_for"
    /\ INCLUDE_VARIABLE_SUBSTRINGS = DefaultInclude
    /\ EXCLUDE_NO_EFFECT_FUNCTIONS = TRUE
    /\ IdleAnalyze /\ IdleReach /\ IdleInflu /\ IdleRank
    /\ solidity_files \in UNION {[1 .. n -> Units] : n \in 1 .. MaxFiles}
    /\ file_idx = 1
    /\ all_functions = NoDict
    /\ log = <<>>
    /\ IdleExport

\* for sol in solidity_files: print("[+] Analyzing"); the call begins
MainAnalyze ==
    /\ pc = "main_for"
    /\ file_idx <= Len(solidity_files)
    /\ log' = Append(log, [event |-> "Analyzing", file |-> file_idx])
    /\ functions' = solidity_files[file_idx].functions
    /\ cursor' = 0
    /\ results' = NoDict
    /\ call_graph' = <<>>
    /\ pc' = "slither"
    /\ UNCHANGED <<cfgVars, start, visited, queue, influVars, solidity_files,
                   file_idx, all_functions, exportVars, rankVars>>

\* all_functions.update(per_file)
MainMerge ==
    /\ pc = "returned"
    /\ all_functions' = Update(all_functions, results)
    /\ file_idx' = file_idx + 1
    /\ pc' = "main_for"
    /\ UNCHANGED <<cfgVars, analyzeVars, reachVars, influVars, solidity_files, log,
                   exportVars, rankVars>>

\* except Exception as e: print("[WARN] Skipped")
MainSkip ==
    /\ \/ pc = "slither" /\ RaisesAt(0)
       \/ pc = "for" /\ cursor <= Len(functions) /\ RaisesAt(cursor)
    /\ all_functions' = AfterFailure(all_functions, results)
    /\ log' = Append(log, [event |-> "Skipped", file |-> file_idx])
    /\ file_idx' = file_idx + 1
    /\ pc' = "main_for"
    /\ UNCHANGED <<cfgVars, analyzeVars, reachVars, influVars, solidity_files,
                   exportVars, rankVars>>

\* The loop over the files is over
MainLoopEnd ==
    /\ pc = "main_for"
    /\ file_idx > Len(solidity_files)
    /\ pc' = "merged"
    /\ UNCHANGED <<cfgVars, analyzeVars, reachVars, influVars, mainVars, rankVars>>

\* The edges emitted for one entry of all_functions: calls, reads, writes
edges_of(fn, rec) ==
    [k \in DOMAIN rec.calls |->
        [from |-> fn, to |-> rec.calls[k], type |-> "call"]]
    \o [k \in DOMAIN rec.reads |->
        [from |-> fn, to |-> rec.reads[k], type |-> "reads"]]
    \o [k \in DOMAIN rec.writes |->
        [from |-> fn, to |-> rec.writes[k], type |-> "writes"]]

\* for fn, data in all_functions.items(): edges.append(...)
RECURSIVE build_edges(_)
build_edges(all) ==
    IF all = <<>> THEN <<>>
    ELSE edges_of(Head(all).key, Head(all).value) \o build_edges(Tail(all))

\* list(d.keys())
KeyList(d) == [k \in DOMAIN d |-> d[k].key]

\* The graph dict
build_graph(all, es) ==
    [nodes     |-> [functions |-> KeyList(all),
                    variables |-> sorted({es[k].to : k \in
                                     {j \in DOMAIN es :
                                         es[j].type \in {"reads", "writes"}}})],
     functions |-> all,
     edges     |-> es,
     meta      |-> [source |-> "slither", analysis |-> "dependency-graph"]]

\* The members of a dict in the order a serialiser writes them: sorted by
\* key with sort_keys, in insertion order without
Members(d, sort_keys) ==
    IF sort_keys
    THEN LET ks == sorted(Keys(d))
         IN  [k \in DOMAIN ks |-> [key |-> ks[k], value |-> Lookup(d, ks[k])]]
    ELSE d

\* json.dump(graph, f, indent=2) and yaml.safe_dump(graph, f, sort_keys=False):
\* neither sorts the keys, lists are written in list order
dump(g) ==
    [nodes     |-> g.nodes,
     functions |-> Members(g.functions, FALSE),
     edges     |-> g.edges,
     meta      |-> g.meta]

\* Build explicit graph edges
MainEdges ==
    /\ pc = "merged"
    /\ main_edges' = build_edges(all_functions)
    /\ pc' = "main_edges"
    /\ UNCHANGED <<cfgVars, analyzeVars, reachVars, influVars, solidity_files,
                   file_idx, all_functions, log, main_graph, document, rankVars>>

\* graph = {...}; the two files are written
MainWrite ==
    /\ pc = "main_edges"
    /\ main_graph' = build_graph(all_functions, main_edges)
    /\ document' = dump(main_graph')
    /\ pc' = "written"
    /\ UNCHANGED <<cfgVars, analyzeVars, reachVars, influVars, solidity_files,
                   file_idx, all_functions, log, main_edges, rankVars>>

NextMain ==
    \/ MainAnalyze
    \/ AnalyzeEnter
    \/ AnalyzeStep
    \/ AnalyzeReturn
    \/ MainMerge
    \/ MainSkip
    \/ MainLoopEnd
    \/ MainEdges
    \/ MainWrite

SpecMain == InitMain /\ [][NextMain]_vars

-----------------------------------------------------------------------------
(* Driver properties *)

\* The entries of the log with a given event, as the list of their files
RECURSIVE FilesOf(_, _)
FilesOf(l, event) ==
    IF l = <<>> THEN <<>>
    ELSE (IF Head(l).event = event THEN <<Head(l).file>> ELSE <<>>)
            \o FilesOf(Tail(l), event)

\* The records of the units from position k on that do not raise, merged in
\* unit order into all
RECURSIVE MergeSucceeded(_, _)
MergeSucceeded(all, k) ==
    IF k > Len(solidity_files) THEN all
    ELSE MergeSucceeded(
             IF solidity_files[k].raises THEN all
             ELSE Update(all, analyze_solidity_file(solidity_files[k].functions)),
             k + 1)

\* C10: a unit whose analysis fails does not abort the batch and contributes
\* no record; every unit is analysed exactly once, in order, a failing one
\* is skipped once; the final mapping is the merge, in unit order, of the
\* records of the units that succeeded.
C10_PartialFailure ==
    /\ \A k \in DOMAIN log :
          log[k].event = "Skipped" => solidity_files[log[k].file].raises
    /\ pc = "merged" =>
          /\ all_functions = MergeSucceeded(NoDict, 1)
          /\ FilesOf(log, "Analyzing") = [k \in DOMAIN solidity_files |-> k]
          /\ \A k \in DOMAIN solidity_files :
                 Cardinality({j \in DOMAIN log :
                                 log[j] = [event |-> "Skipped", file |-> k]})
                    = IF solidity_files[k].raises THEN 1 ELSE 0

\* The record collected for the first function of a unit
FirstRecord(unit) ==
    ProcessFunction(unit.functions, build_call_graph(unit.functions), 1, NoDict)

\* A unit that failed after a record had been collected for it, between two
\* units that succeeded; the record collected is not in the final mapping.
C10_Witness ==
    /\ pc = "merged"
    /\ Len(solidity_files) = 3
    /\ ~solidity_files[1].raises
    /\ solidity_files[2].raises /\ solidity_files[2].at = 2
    /\ ~solidity_files[3].raises
    /\ Len(all_functions) >= 2
    /\ LET partial == FirstRecord(solidity_files[2])
       IN  /\ partial # NoDict
           /\ partial[1] \notin Elems(all_functions)

\* Whether a list of str is in lexicographic order
InOrder(l) == \A i, j \in DOMAIN l : i < j => ~StrLess(l[j], l[i])

\* nodes.variables of the document written is in lexicographic order
VariablesInOrder ==
    pc = "written" => InOrder(document.nodes.variables)

\* A document in which sorting nodes.variables changed the emission order
VariablesReordered ==
    /\ pc = "written"
    /\ \E i, j \in DOMAIN main_edges :
          /\ i < j
          /\ main_edges[i].type = "reads" /\ main_edges[j].type = "writes"
          /\ StrLess(main_edges[j].to, main_edges[i].to)

\* C11: in the document written, the keys of functions and the list
\* nodes.variables are in lexicographic order, whatever order the functions
\* of a unit are listed in.
C11_SortedOutput ==
    pc = "written" =>
        /\ InOrder(KeyList(document.functions))
        /\ InOrder(document.nodes.variables)

-----------------------------------------------------------------------------
(* Attack-surface ranking, v2-core/deps_uniswap.py *)

\* fn_id of the functions of the contracts
Fids == {Qualified(sPair, sswap), Qualified(sPair, s_update),
         Qualified(sPair, sbar), Qualified(sIFoo, sbar)}

\* Qualified names of state variables
PairVar(name) == Qualified(sPair, name)

W2 == {PairVar(sreserve0), PairVar(stoken0)}
W5 == W2 \cup {PairVar(sprice), PairVar(stotalSupply), PairVar(ssupply)}
W3 == {PairVar(sreserve), PairVar(sReserve), PairVar(stoken)}
R1 == {PairVar(sreserve0)}
R2 == {PairVar(sprice), PairVar(stoken0)}

\* fn_writes after the facts are read
WriteMaps == [Fids -> {W2, W5, W3}]

\* fn_reads after the facts are read: a function without reads has no entry
\* and reads back as the empty set (defaultdict)
ReadMaps ==
    LET Map(a, b, c, d) ==
            (Qualified(sPair, sswap) :> a) @@ (Qualified(sPair, s_update) :> b)
               @@ (Qualified(sPair, sbar) :> c) @@ (Qualified(sIFoo, sbar) :> d)
    IN  {Map({}, {}, {}, {}), Map(R1, {}, R2, {}),
         Map(R2, R1, R1, R2), Map({}, R2, {}, R1)}

CallMaps ==
    LET Map(a, b, c, d) ==
            (Qualified(sPair, sswap) :> a) @@ (Qualified(sPair, s_update) :> b)
               @@ (Qualified(sPair, sbar) :> c) @@ (Qualified(sIFoo, sbar) :> d)
    IN  {Map({}, {}, {}, {}),
         Map({Qualified(sPair, s_update)}, {Qualified(sPair, sbar)}, {}, {}),
         Map({Qualified(sPair, s_update)}, {Qualified(sPair, sswap)}, {},
             {Qualified(sIFoo, sbar), Qualified(sPair, sbar)})}

\* The number of entries reported, ranked[:30], scaled to the entry points of
\* the model
TopN == 2

\* reachable(start)
reachable(s) == bfs({s}, <<s>>, fn_calls)

\* set().union(*(m[r] for r in reach))
UnionOver(m, reach) == UNION {m[r] : r \in reach}

\* The tuple appended for entry point e
RankTuple(e) ==
    LET reach == reachable(e)
    IN  [wcnt   |-> Cardinality(UnionOver(fn_writes, reach)),
         rcnt   |-> Cardinality(UnionOver(fn_reads, reach)),
         e      |-> e,
         writes |-> UnionOver(fn_writes, reach),
         reads  |-> UnionOver(fn_reads, reach),
         reach  |-> reach]

\* Python tuple comparison a < b; e differs between two tuples of ranked, so
\* the sets that follow it are never compared
TupleLess(a, b) ==
    \/ a.wcnt < b.wcnt
    \/ a.wcnt = b.wcnt /\ a.rcnt < b.rcnt
    \/ a.wcnt = b.wcnt /\ a.rcnt = b.rcnt /\ StrLess(a.e, b.e)

\* Variant: reverse=True forgotten
PrecedesAscending(a, b) == TupleLess(a, b)

\* a is placed before b by ranked.sort(reverse=True)
Precedes(a, b) == TupleLess(b, a)

\* list.sort(reverse=True) on the tuples of a list without equal tuples
RECURSIVE sort_reverse(_)
sort_reverse(S) ==
    IF S = {} THEN <<>>
    ELSE LET m == CHOOSE x \in S : \A y \in S \ {x} : Precedes(x, y)
         IN  <<m>> \o sort_reverse(S \ {m})

\* l[:n]
Slice(l, n) == SubSeq(l, 1, IF Len(l) < n THEN Len(l) ELSE n)

\* What is printed for one tuple
Printed(t) ==
    [entrypoint    |-> t.e,
     reachable_fns |-> Cardinality(t.reach) - 1,
     wcnt          |-> t.wcnt,
     writes        |-> sorted(t.writes),
     rcnt          |-> t.rcnt,
     reads         |-> sorted(t.reads)]

InitRank ==
    /\ pc = "rank_for"
    /\ IdleConfig /\ IdleAnalyze /\ IdleReach /\ IdleInflu /\ IdleMain
    /\ fn_writes \in WriteMaps
    /\ fn_reads \in ReadMaps
    /\ fn_calls \in CallMaps
    /\ entrypoints \in {E \in SUBSET Fids : Cardinality(E) >= 2}
    /\ ranked = <<>>
    /\ report = <<>>

\* One iteration of "for e in sorted(entrypoints)"
RankAppend ==
    /\ pc = "rank_for"
    /\ Len(ranked) < Cardinality(entrypoints)
    /\ ranked' = Append(ranked, RankTuple(sorted(entrypoints)[Len(ranked) + 1]))
    /\ UNCHANGED <<pc, cfgVars, analyzeVars, reachVars, influVars, mainVars,
                   fn_reads, fn_writes, fn_calls, entrypoints, report>>

\* ranked.sort(reverse=True)
RankSort ==
    /\ pc = "rank_for"
    /\ Len(ranked) = Cardinality(entrypoints)
    /\ ranked' = sort_reverse(Elems(ranked))
    /\ pc' = "rank_sorted"
    /\ UNCHANGED <<cfgVars, analyzeVars, reachVars, influVars, mainVars,
                   fn_reads, fn_writes, fn_calls, entrypoints, report>>

\* for ... in ranked[:30]: print(...)
RankReport ==
    /\ pc = "rank_sorted"
    /\ report' = [k \in DOMAIN Slice(ranked, TopN) |-> Printed(ranked[k])]
    /\ pc' = "rank_printed"
    /\ UNCHANGED <<cfgVars, analyzeVars, reachVars, influVars, mainVars,
                   fn_reads, fn_writes, fn_calls, entrypoints, ranked>>

NextRank == RankAppend \/ RankSort \/ RankReport

SpecRank == InitRank /\ [][NextRank]_vars

-----------------------------------------------------------------------------
(* Ranking properties *)

\* Least set of function ids containing S and closed under fn_calls
RECURSIVE CalledFrom(_)
CalledFrom(S) ==
    LET T == S \cup UNION {fn_calls[g] : g \in S}
    IN  IF T = S THEN S ELSE CalledFrom(T)

\* Sizes of the write and of the read set of the closure of entry point e
WriteSize(e) == Cardinality(UNION {fn_writes[g] : g \in CalledFrom({e})})
ReadSize(e)  == Cardinality(UNION {fn_reads[g] : g \in CalledFrom({e})})

\* The pair of e is not below the pair of f
PairNotBelow(e, f) ==
    \/ WriteSize(e) > WriteSize(f)
    \/ WriteSize(e) = WriteSize(f) /\ ReadSize(e) >= ReadSize(f)

\* The entry points in the order of ranked
RankedEntrypoints == [k \in DOMAIN ranked |-> ranked[k].e]

\* The entry points in the order they are printed
ReportedEntrypoints == [k \in DOMAIN report |-> report[k].entrypoint]

\* C12: once sorted, ranked lists every entry point once, in non-increasing
\* order of (size of the closure's write set, size of the closure's read
\* set); the report is the first TopN entries of that order, with those
\* sizes; and when the write sets of three entry points have the sizes 5, 2
\* and 8, the first two entries are the one of size 8, then the one of size 5.
C12_Ranking ==
    /\ pc \in {"rank_sorted", "rank_printed"} =>
          /\ Len(ranked) = Cardinality(entrypoints)
          /\ Elems(RankedEntrypoints) = entrypoints
          /\ \A i, j \in DOMAIN ranked :
                i < j => PairNotBelow(ranked[i].e, ranked[j].e)
          /\ (/\ Cardinality(entrypoints) = 3
              /\ {WriteSize(e) : e \in entrypoints} = {5, 2, 8})
                => /\ WriteSize(ranked[1].e) = 8
                   /\ WriteSize(ranked[2].e) = 5
    /\ pc = "rank_printed" =>
          /\ Len(report) = (IF Len(ranked) < TopN THEN Len(ranked) ELSE TopN)
          /\ \A k \in DOMAIN report :
                /\ report[k].entrypoint = ranked[k].e
                /\ report[k].wcnt = WriteSize(ranked[k].e)
                /\ report[k].rcnt = ReadSize(ranked[k].e)

\* Three entry points with write sets of sizes 5, 2 and 8, listed in that
\* order by sorted(entrypoints); the two entries printed are the one of size
\* 8, then the one of size 5, and the one of size 2 is left out.
C12_Witness ==
    /\ pc = "rank_printed"
    /\ Cardinality(entrypoints) = 3
    /\ LET es == sorted(entrypoints)
       IN  /\ WriteSize(es[1]) = 5 /\ WriteSize(es[2]) = 2 /\ WriteSize(es[3]) = 8
           /\ ReportedEntrypoints = <<es[3], es[1]>>

\* Two entry points with write sets of the same size, ranked by the size of
\* their read sets
ReadTieBreak ==
    /\ pc = "rank_printed"
    /\ \E i, j \in DOMAIN ranked :
          /\ i < j
          /\ ranked[i].wcnt = ranked[j].wcnt
          /\ ranked[i].rcnt > ranked[j].rcnt
          /\ StrLess(ranked[i].e, ranked[j].e)

====
